---- MODULE Spec2Model ----
(***************************************************************************)
(* A model of research/extract-exercises.py: the COROS strength-exercise   *)
(* extractor.  main() loads a localization table and an exercise document, *)
(* transforms every raw record, sorts the clean records by name and writes *)
(* them to exercises-clean.json and exercises.csv.                         *)
(*                                                                         *)
(* Python str values are TLA+ strings; Len, SubSeq and \o work on them     *)
(* character by character.  Python dicts are functions (DOMAIN is the key  *)
(* set), Python lists are sequences.                                       *)
(***************************************************************************)
EXTENDS Integers, Sequences, FiniteSets, TLC

VARIABLES
    i18nFile,   \* en-US.prod.js on disk: absent, or its text
    exFile,     \* strength-exercises.json on disk: absent, malformed, or a JSON document
    jsonFile,   \* exercises-clean.json on disk
    csvFile,    \* exercises.csv on disk
    pc,         \* position of main()
    err,        \* the exception that ended the run and the step that raised it
    i18n,       \* main's local i18n
    raw,        \* main's local raw
    exercises,  \* main's local exercises
    results,    \* main's local results
    idx,        \* number of records the for loops have consumed
    console     \* what main printed

vars == <<i18nFile, exFile, jsonFile, csvFile, pc, err, i18n, raw, exercises,
          results, idx, console>>

----------------------------------------------------------------------------
(* Bounds of the model *)

\* longest exercise array of the pipeline runs
MaxRecords == 3

\* longest category array of a raw record
MaxCodes == 2

----------------------------------------------------------------------------
(* Python str operations *)

Char(s, i) == SubSeq(s, i, i)

\* the part of s from its i-th character on: s[i-1:]
From(s, i) == SubSeq(s, i, Len(s))

\* str.isspace of one character, for the characters the inputs use
IsSpace(c) == c \in {" ", "\t", "\n", "\r"}

RECURSIVE LStrip(_)
LStrip(s) ==
    IF Len(s) > 0 /\ IsSpace(Char(s, 1)) THEN LStrip(From(s, 2)) ELSE s

RECURSIVE RStripSpace(_)
RStripSpace(s) ==
    IF Len(s) > 0 /\ IsSpace(Char(s, Len(s)))
    THEN RStripSpace(SubSeq(s, 1, Len(s) - 1))
    ELSE s

\* str.strip()
Strip(s) == RStripSpace(LStrip(s))

\* str.rstrip(chars)
RECURSIVE RStrip(_, _)
RStrip(s, chars) ==
    IF Len(s) > 0 /\ Char(s, Len(s)) \in chars
    THEN RStrip(SubSeq(s, 1, Len(s) - 1), chars)
    ELSE s

StartsWith(s, p) == Len(s) >= Len(p) /\ SubSeq(s, 1, Len(p)) = p

\* the regular expression class \w, for the characters the inputs use
IsWord(c) ==
    c \in {"a", "b", "c", "d", "e", "f", "g", "h", "i", "j", "k", "l", "m",
           "n", "o", "p", "q", "r", "s", "t", "u", "v", "w", "x", "y", "z",
           "A", "B", "C", "D", "E", "F", "G", "H", "I", "J", "K", "L", "M",
           "N", "O", "P", "Q", "R", "S", "T", "U", "V", "W", "X", "Y", "Z",
           "0", "1", "2", "3", "4", "5", "6", "7", "8", "9", "_"}

\* the index just past the longest run of \w characters of s that starts at i
RECURSIVE WordEnd(_, _)
WordEnd(s, i) ==
    IF i <= Len(s) /\ IsWord(Char(s, i)) THEN WordEnd(s, i + 1) ELSE i

\* re.sub(r"^window\.\w+=", "", s): the pattern is anchored at the start, \w+
\* is greedy and "=" is no word character, so it matches exactly when
\* "window." is followed by a non-empty run of word characters and then "="
StripAssignment(s) ==
    IF StartsWith(s, "window.")
    THEN LET e == WordEnd(s, 8)
         IN  IF e > 8 /\ e <= Len(s) /\ Char(s, e) = "="
             THEN From(s, e + 1)
             ELSE s
    ELSE s

\* str.split(sep) for a one-character sep: always at least one element
RECURSIVE SplitFrom(_, _, _, _)
SplitFrom(s, sep, start, i) ==
    IF i > Len(s) THEN <<SubSeq(s, start, Len(s))>>
    ELSE IF Char(s, i) = sep
         THEN <<SubSeq(s, start, i - 1)>> \o SplitFrom(s, sep, i + 1, i + 1)
         ELSE SplitFrom(s, sep, start, i + 1)

Split(s, sep) == SplitFrom(s, sep, 1, 1)

\* sep.join(parts)
RECURSIVE Join(_, _)
Join(sep, parts) ==
    IF Len(parts) = 0 THEN ""
    ELSE IF Len(parts) = 1 THEN parts[1]
         ELSE parts[1] \o sep \o Join(sep, Tail(parts))

\* str(n) of an int: its decimal representation
RECURSIVE StrNat(_)
StrNat(n) ==
    LET digit == Char("0123456789", (n % 10) + 1)
    IN  IF n < 10 THEN digit ELSE StrNat(n \div 10) \o digit

StrInt(n) == IF n < 0 THEN "-" \o StrNat(-n) ELSE StrNat(n)

\* the printable ASCII characters of code points 32 to 95, and 97 to 126
AsciiLow ==
    " !\"#$%&'()*+,-./0123456789:;<=>?@ABCDEFGHIJKLMNOPQRSTUVWXYZ[\\]^_"

AsciiHigh == "abcdefghijklmnopqrstuvwxyz{|}~"

IndexIn(s, c) == CHOOSE i \in 1..Len(s) : Char(s, i) = c

\* ord(c) of a printable ASCII character
CodePoint(c) ==
    IF \E i \in 1..Len(AsciiLow) : Char(AsciiLow, i) = c
    THEN 31 + IndexIn(AsciiLow, c)
    ELSE 96 + IndexIn(AsciiHigh, c)

\* a < b for str: by code point at the first difference, a proper prefix first
RECURSIVE StrLess(_, _)
StrLess(a, b) ==
    IF Len(b) = 0 THEN FALSE
    ELSE IF Len(a) = 0 THEN TRUE
    ELSE IF Char(a, 1) = Char(b, 1) THEN StrLess(From(a, 2), From(b, 2))
    ELSE CodePoint(Char(a, 1)) < CodePoint(Char(b, 1))

----------------------------------------------------------------------------
(* json.loads, for documents that are one object of string members *)

EmptyDict == [k \in {} |-> ""]

\* the whitespace json skips between tokens
RECURSIVE SkipWs(_, _)
SkipWs(s, i) ==
    IF i <= Len(s) /\ Char(s, i) \in {" ", "\t", "\n", "\r"}
    THEN SkipWs(s, i + 1)
    ELSE i

\* the index of the quote closing the string whose text starts at i, 0 when
\* the string is unterminated or holds a control character
RECURSIVE StringEnd(_, _)
StringEnd(s, i) ==
    IF i > Len(s) THEN 0
    ELSE IF Char(s, i) = "\"" THEN i
    ELSE IF Char(s, i) \in {"\t", "\n", "\r"} THEN 0
    ELSE StringEnd(s, i + 1)

\* a JSON string at i: [ok, value, next]
ParseString(s, i) ==
    IF i <= Len(s) /\ Char(s, i) = "\""
    THEN LET e == StringEnd(s, i + 1)
         IN  IF e = 0
             THEN [ok |-> FALSE, value |-> "", next |-> i]
             ELSE [ok |-> TRUE, value |-> SubSeq(s, i + 1, e - 1), next |-> e + 1]
    ELSE [ok |-> FALSE, value |-> "", next |-> i]

Failed == [ok |-> FALSE, value |-> EmptyDict]

\* the members of an object from i on, up to its closing brace and the end
\* of the text; a repeated key keeps its last value
RECURSIVE ParseMembers(_, _, _)
ParseMembers(s, i, acc) ==
    LET k == ParseString(s, SkipWs(s, i))
        c == SkipWs(s, k.next)
        v == ParseString(s, SkipWs(s, c + 1))
        d == SkipWs(s, v.next)
        got == (k.value :> v.value) @@ acc
    IN  IF ~k.ok \/ c > Len(s) \/ Char(s, c) # ":" THEN Failed
        ELSE IF ~v.ok \/ d > Len(s) THEN Failed
        ELSE IF Char(s, d) = "," THEN ParseMembers(s, d + 1, got)
        ELSE IF Char(s, d) = "}" /\ SkipWs(s, d + 1) > Len(s)
             THEN [ok |-> TRUE, value |-> got]
             ELSE Failed

\* json.loads(s): [ok, value]; ok is FALSE where json raises JSONDecodeError
JsonLoads(s) ==
    LET b == SkipWs(s, 1)
        m == SkipWs(s, b + 1)
    IN  IF b > Len(s) \/ Char(s, b) # "{" THEN Failed
        ELSE IF m <= Len(s) /\ Char(s, m) = "}"
             THEN IF SkipWs(s, m + 1) > Len(s)
                  THEN [ok |-> TRUE, value |-> EmptyDict]
                  ELSE Failed
             ELSE ParseMembers(s, m, EmptyDict)

----------------------------------------------------------------------------
(* load_i18n *)

\* the stripping without the str.strip() of the file content
I18nJsonTextNoStrip(text) == RStrip(StripAssignment(text), {";"})

\* the text handed to json.loads
I18nJsonText(text) == RStrip(StripAssignment(Strip(text)), {";"})

\* load_i18n on the content of the file
load_i18n(text) == JsonLoads(I18nJsonText(text))

----------------------------------------------------------------------------
(* The static lookup tables *)

BODY_PARTS ==
    (0 :> "Whole Body") @@ (1 :> "Shoulders") @@ (2 :> "Chest") @@
    (3 :> "Back") @@ (4 :> "Core") @@ (5 :> "Legs/Hips") @@ (6 :> "Arms")

EQUIPMENT ==
    (1 :> "Bodyweight") @@ (2 :> "Dumbbells") @@ (3 :> "Barbells") @@
    (4 :> "Barbell Plates") @@ (5 :> "Cable/Pulley") @@
    (6 :> "Gym Equipment") @@ (7 :> "Exercise Ball") @@ (8 :> "Bosu Ball") @@
    (9 :> "Bands") @@ (10 :> "Medicine Ball") @@ (11 :> "Kettlebell") @@
    (12 :> "Hangboard") @@ (13 :> "Indoor Rower") @@ (16 :> "Ropes")

MUSCLES ==
    (1 :> "Deltoids") @@ (2 :> "Chest") @@ (3 :> "Biceps") @@
    (4 :> "Triceps") @@ (5 :> "Forearms") @@ (6 :> "Abs") @@ (7 :> "Glutes") @@
    (8 :> "Quadriceps") @@ (9 :> "Adductor") @@ (10 :> "Abductor") @@
    (11 :> "Trapezius") @@ (12 :> "Latissimus Dorsi") @@
    (13 :> "Erector Spinae") @@ (14 :> "Posterior Thigh") @@ (15 :> "Calves")

----------------------------------------------------------------------------
(* The expressions of main *)

\* dict.get(key, default)
DictGet(d, key, default) == IF key \in DOMAIN d THEN d[key] ELSE default

\* a lookup that takes a missing data key for an empty array
DataLookupDefault(doc) == [ok |-> TRUE, value |-> DictGet(doc, "data", <<>>)]

\* raw["data"]: [ok, value]; ok is FALSE where the subscript raises KeyError
DataLookup(doc) ==
    IF "data" \in DOMAIN doc
    THEN [ok |-> TRUE, value |-> doc["data"]]
    ELSE [ok |-> FALSE, value |-> <<>>]

\* ex["name"] is defined only where the key is there; elsewhere KeyError
HasName(ex) == "name" \in DOMAIN ex

\* a lookup whose default is the empty string
ResolveNameBlankDefault(table, name_code) == DictGet(table, name_code, "")

\* i18n.get(name_code, name_code)
ResolveName(table, name_code) == DictGet(table, name_code, name_code)

\* the whole cover string instead of its first element
ThumbnailUnsplit(covers) == covers

\* covers.split(",")[0] if covers else ""
Thumbnail(covers) == IF covers # "" THEN Split(covers, ",")[1] ELSE ""

\* a comprehension that filters the codes the table lacks
RECURSIVE LabelsKnownOnly(_, _)
LabelsKnownOnly(table, codes) ==
    IF Len(codes) = 0 THEN <<>>
    ELSE (IF codes[1] \in DOMAIN table THEN <<table[codes[1]]>> ELSE <<>>)
         \o LabelsKnownOnly(table, Tail(codes))

\* [TABLE.get(p, f"Unknown({p})") for p in codes]
Labels(table, codes) ==
    [i \in 1..Len(codes) |->
        DictGet(table, codes[i], "Unknown(" \o StrInt(codes[i]) \o ")")]

\* the dict one iteration of the loop appends
Transform(ex, table) ==
    [name       |-> ResolveName(table, ex["name"]),
     body_parts |-> Labels(BODY_PARTS, DictGet(ex, "part", <<>>)),
     muscles    |-> Labels(MUSCLES, DictGet(ex, "muscle", <<>>)),
     equipment  |-> Labels(EQUIPMENT, DictGet(ex, "equipment", <<>>)),
     thumbnail  |-> Thumbnail(DictGet(ex, "coverUrlArrStr", "")),
     video      |-> DictGet(ex, "videoUrl", "")]

\* an append that skips a display name already in the list
AppendResultDedup(rs, r) ==
    IF \E i \in 1..Len(rs) : rs[i].name = r.name THEN rs ELSE Append(rs, r)

\* results.append(r)
AppendResult(rs, r) == Append(rs, r)

\* a loop that stops behind its first element
LoopDoneEarly(n, exs) == n = Len(exs) \/ n >= 1

\* the for loop over exercises is exhausted
LoopDone(n, exs) == n = Len(exs)

\* an insertion that puts r in front of the elements of equal name
RECURSIVE InsertBeforeEqual(_, _)
InsertBeforeEqual(sorted, r) ==
    IF Len(sorted) = 0 THEN <<r>>
    ELSE IF ~StrLess(sorted[1].name, r.name) THEN <<r>> \o sorted
    ELSE <<sorted[1]>> \o InsertBeforeEqual(Tail(sorted), r)

\* r goes behind every element whose name is not greater than its own
RECURSIVE InsertByName(_, _)
InsertByName(sorted, r) ==
    IF Len(sorted) = 0 THEN <<r>>
    ELSE IF StrLess(r.name, sorted[1].name) THEN <<r>> \o sorted
    ELSE <<sorted[1]>> \o InsertByName(Tail(sorted), r)

RECURSIVE SortFrom(_, _)
SortFrom(sorted, rest) ==
    IF Len(rest) = 0 THEN sorted
    ELSE SortFrom(InsertByName(sorted, rest[1]), Tail(rest))

\* results.sort(key=lambda r: r["name"]): list.sort is stable and compares
\* keys with <
SortByName(rs) == SortFrom(<<>>, rs)

\* csv.writer's field under QUOTE_MINIMAL: quoted when it holds the
\* delimiter, the quote character or a line terminator character; inside
\* the quotes a quote character is doubled
NeedsQuote(s) == \E i \in 1..Len(s) : Char(s, i) \in {",", "\"", "\r", "\n"}

RECURSIVE DoubleQuotes(_)
DoubleQuotes(s) ==
    IF Len(s) = 0 THEN ""
    ELSE (IF Char(s, 1) = "\"" THEN "\"\"" ELSE Char(s, 1))
         \o DoubleQuotes(From(s, 2))

\* a field written as it is
CsvFieldUnquoted(s) == s

CsvField(s) == IF NeedsQuote(s) THEN "\"" \o DoubleQuotes(s) \o "\"" ELSE s

\* writer.writerow(fields): the record as the file receives it
CsvLine(fields) ==
    Join(",", [i \in 1..Len(fields) |-> CsvField(fields[i])]) \o "\r\n"

CsvHeader == <<"Name", "Body Parts", "Muscles", "Equipment">>

\* the list of one data row
CsvRow(r) ==
    <<r.name, Join("; ", r.body_parts), Join("; ", r.muscles),
      Join("; ", r.equipment)>>

----------------------------------------------------------------------------
(* The files a run can find *)

AbsentFile == [kind |-> "absent"]

TextFile(text) == [kind |-> "text", text |-> text]

\* strength-exercises.json whose content json.load rejects
MalformedFile == [kind |-> "malformed"]

JsonFile(doc) == [kind |-> "json", value |-> doc]

\* a document with the data key, and one without it
Doc(exs) == [result |-> "0000", data |-> exs]

DocNoData == [result |-> "1001"]

\* an output file that does not exist (yet)
NoOutput == [exists |-> FALSE, content |-> <<>>]

\* the output files an earlier run left behind
StaleJson ==
    [exists |-> TRUE,
     content |-> <<[name |-> "old", body_parts |-> <<>>, muscles |-> <<>>,
                    equipment |-> <<>>, thumbnail |-> "", video |-> ""]>>]

StaleCsv ==
    [exists |-> TRUE,
     content |-> <<"Name,Body Parts,Muscles,Equipment\r\n", "old,,,\r\n">>]

\* a localization file of the documented form
ValidI18nText ==
    "window.en_US={\"a\":\"Sq\",\"b\":\"B\",\"c\":\"b o\",\"d\":\"B\"};"

\* a localization file cut short
TruncatedI18nText == "window.en_US={\"a\":\"Sq\","

\* The raw records of the pipeline runs: every field present; only the name;
\* a second code with the same display name; a code the table lacks; a name
\* that needs CSV quoting; no name at all.
PipelineRecords ==
    { [id |-> 1, name |-> "a", part |-> <<0>>, muscle |-> <<99>>,
       equipment |-> <<1>>, coverUrlArrStr |-> "http://a,http://b",
       videoUrl |-> "http://v"],
      [id |-> 2, name |-> "b"],
      [id |-> 3, name |-> "d", videoUrl |-> "http://w", part |-> <<6, 1>>],
      [id |-> 4, name |-> "zz", equipment |-> <<16, 14>>],
      [id |-> 5, name |-> "x,\"q\"", muscle |-> <<15, 1>>],
      [id |-> 6, part |-> <<2>>] }

SeqsUpTo(S, n) == UNION {[1..k -> S] : k \in 0..n}

\* The category codes of the transformer runs: inside and outside each
\* table, at the edges of the tables, negative, and of several digits.
CodePool == {-1, 0, 1, 6, 7, 14, 16, 99, 120}

CoverPool == {"", "http://a", "http://a,http://b", ",http://b", "http://a,", ","}

NamePool == {"a", "b", "zz", "", "x,\"q\""}

\* The raw records of the transformer runs: one field varied at a time.
TransformRecords ==
    {[id |-> 7, name |-> "a", part |-> cs] : cs \in SeqsUpTo(CodePool, MaxCodes)}
    \cup {[id |-> 7, name |-> "a", muscle |-> cs] :
             cs \in SeqsUpTo(CodePool, MaxCodes)}
    \cup {[id |-> 7, name |-> "a", equipment |-> cs] :
             cs \in SeqsUpTo(CodePool, MaxCodes)}
    \cup {[id |-> 7, name |-> "a", coverUrlArrStr |-> c] : c \in CoverPool}
    \cup {[id |-> 7, name |-> "a", videoUrl |-> v] : v \in CoverPool}
    \cup {[id |-> 7, name |-> "a", coverUrlArrStr |-> c, videoUrl |-> "http://v"] :
             c \in CoverPool}
    \cup {[id |-> 7, name |-> n] : n \in NamePool}

\* The localization files of the loader runs: leading whitespace, an
\* assignment prefix, a body and a tail, each from a small set.
LeadPool == {"", " ", "\n "}

PrefixPool ==
    {"", "window.en_US=", "window.x=", "en_US=", "x=", "window.=",
     "window.en-US=", "window.en_US =", "Window.en_US="}

TailPool == {"", ";", " ", ";\n", " ;", ";;", "; ;", ";x"}

\* JSON texts with the value json gives each; ok is FALSE for what is no JSON
JsonSamples ==
    { [text |-> "{\"a\":\"Squat\"}", ok |-> TRUE, value |-> ("a" :> "Squat")],
      [text |-> "{}", ok |-> TRUE, value |-> EmptyDict],
      [text |-> "{ \"a\" : \"Squat\" ,\n \"b\":\"x=1;\" }", ok |-> TRUE,
       value |-> ("a" :> "Squat") @@ ("b" :> "x=1;")],
      [text |-> "{\"a\":\"Squat\",\"a\":\"Lunge\"}", ok |-> TRUE,
       value |-> ("a" :> "Lunge")],
      [text |-> "{\"a\":\"Squat\",}", ok |-> FALSE, value |-> EmptyDict],
      [text |-> "{\"a\":\"Squat\"", ok |-> FALSE, value |-> EmptyDict],
      [text |-> "{\"a\" \"Squat\"}", ok |-> FALSE, value |-> EmptyDict],
      [text |-> "", ok |-> FALSE, value |-> EmptyDict] }

LoaderTexts ==
    {l \o p \o j.text \o t :
        l \in LeadPool, p \in PrefixPool, j \in JsonSamples, t \in TailPool}

----------------------------------------------------------------------------
(* The state before main() runs *)

NoError == [type |-> "none", at |-> "none"]

\* the output files are both missing, or both left by an earlier run
OutputsBefore == {<<NoOutput, NoOutput>>, <<StaleJson, StaleCsv>>}

Locals ==
    /\ pc = "load_i18n"
    /\ err = NoError
    /\ i18n = EmptyDict
    /\ raw = DocNoData
    /\ exercises = <<>>
    /\ results = <<>>
    /\ idx = 0
    /\ console = <<>>

\* runs over well-formed inputs of up to MaxRecords records
InitPipeline ==
    /\ i18nFile = TextFile(ValidI18nText)
    /\ exFile \in {JsonFile(Doc(exs)) : exs \in SeqsUpTo(PipelineRecords, MaxRecords)}
    /\ \E before \in OutputsBefore : jsonFile = before[1] /\ csvFile = before[2]
    /\ Locals

\* runs over missing and malformed input files
InitFailure ==
    /\ i18nFile \in {AbsentFile, TextFile(TruncatedI18nText), TextFile(ValidI18nText)}
    /\ exFile \in {AbsentFile, MalformedFile, JsonFile(DocNoData),
                   JsonFile(Doc(<<[id |-> 2, name |-> "b"]>>))}
    /\ \E before \in OutputsBefore : jsonFile = before[1] /\ csvFile = before[2]
    /\ Locals

\* runs over the localization files
InitLoader ==
    /\ i18nFile \in {TextFile(t) : t \in LoaderTexts}
    /\ exFile = JsonFile(Doc(<<[id |-> 2, name |-> "a"]>>))
    /\ jsonFile = NoOutput
    /\ csvFile = NoOutput
    /\ Locals

\* runs over single records
InitTransform ==
    /\ i18nFile = TextFile(ValidI18nText)
    /\ exFile \in {JsonFile(Doc(<<r>>)) : r \in TransformRecords}
    /\ jsonFile = NoOutput
    /\ csvFile = NoOutput
    /\ Locals

Init == InitPipeline \/ InitFailure \/ InitLoader \/ InitTransform

----------------------------------------------------------------------------
(* The steps of main() *)

\* an uncaught exception ends the run; the traceback names the step
Abort(exception) ==
    /\ pc' = "aborted"
    /\ err' = [type |-> exception, at |-> pc]

\* i18n = load_i18n("en-US.prod.js")
LoadI18n ==
    /\ pc = "load_i18n"
    /\ \/ /\ i18nFile.kind = "absent"
          /\ Abort("FileNotFoundError")
          /\ UNCHANGED i18n
       \/ /\ i18nFile.kind = "text"
          /\ ~load_i18n(i18nFile.text).ok
          /\ Abort("JSONDecodeError")
          /\ UNCHANGED i18n
       \/ /\ i18nFile.kind = "text"
          /\ load_i18n(i18nFile.text).ok
          /\ i18n' = load_i18n(i18nFile.text).value
          /\ pc' = "load_exercises"
          /\ UNCHANGED err
    /\ UNCHANGED <<i18nFile, exFile, jsonFile, csvFile, raw, exercises,
                   results, idx, console>>

\* with open("strength-exercises.json") as f: raw = json.load(f)
LoadExercises ==
    /\ pc = "load_exercises"
    /\ \/ /\ exFile.kind = "absent"
          /\ Abort("FileNotFoundError")
          /\ UNCHANGED raw
       \/ /\ exFile.kind = "malformed"
          /\ Abort("JSONDecodeError")
          /\ UNCHANGED raw
       \/ /\ exFile.kind = "json"
          /\ raw' = exFile.value
          /\ pc' = "get_data"
          /\ UNCHANGED err
    /\ UNCHANGED <<i18nFile, exFile, jsonFile, csvFile, i18n, exercises,
                   results, idx, console>>

\* exercises = raw["data"]; print(...); results = []
GetData ==
    /\ pc = "get_data"
    /\ \/ /\ ~DataLookup(raw).ok
          /\ Abort("KeyError")
          /\ UNCHANGED <<exercises, console>>
       \/ /\ DataLookup(raw).ok
          /\ exercises' = DataLookup(raw).value
          /\ console' = Append(console,
                 "Total exercises: " \o StrInt(Len(DataLookup(raw).value)))
          /\ pc' = "loop"
          /\ UNCHANGED err
    /\ UNCHANGED <<i18nFile, exFile, jsonFile, csvFile, i18n, raw, results, idx>>

\* one iteration of: for ex in exercises
TransformRecord ==
    /\ pc = "loop"
    /\ ~LoopDone(idx, exercises)
    /\ \/ /\ ~HasName(exercises[idx + 1])
          /\ Abort("KeyError")
          /\ UNCHANGED <<results, idx>>
       \/ /\ HasName(exercises[idx + 1])
          /\ results' = AppendResult(results, Transform(exercises[idx + 1], i18n))
          /\ idx' = idx + 1
          /\ UNCHANGED <<pc, err>>
    /\ UNCHANGED <<i18nFile, exFile, jsonFile, csvFile, i18n, raw, exercises,
                   console>>

\* results.sort(key=lambda r: r["name"])
Sort ==
    /\ pc = "loop"
    /\ LoopDone(idx, exercises)
    /\ results' = SortByName(results)
    /\ pc' = "open_json"
    /\ UNCHANGED <<i18nFile, exFile, jsonFile, csvFile, err, i18n, raw,
                   exercises, idx, console>>

\* open("exercises-clean.json", "w"): created, or emptied
OpenJson ==
    /\ pc = "open_json"
    /\ jsonFile' = [exists |-> TRUE, content |-> <<>>]
    /\ pc' = "dump_json"
    /\ UNCHANGED <<i18nFile, exFile, csvFile, err, i18n, raw, exercises,
                   results, idx, console>>

\* json.dump(results, f, indent=2, ensure_ascii=False): the array, record by
\* record
DumpJson ==
    /\ pc = "dump_json"
    /\ jsonFile' = [exists |-> TRUE, content |-> results]
    /\ pc' = "open_csv"
    /\ UNCHANGED <<i18nFile, exFile, csvFile, err, i18n, raw, exercises,
                   results, idx, console>>

\* open("exercises.csv", "w", newline=""): created, or emptied
OpenCsv ==
    /\ pc = "open_csv"
    /\ csvFile' = [exists |-> TRUE, content |-> <<>>]
    /\ pc' = "write_header"
    /\ UNCHANGED <<i18nFile, exFile, jsonFile, err, i18n, raw, exercises,
                   results, idx, console>>

\* writer.writerow(["Name", "Body Parts", "Muscles", "Equipment"])
WriteHeader ==
    /\ pc = "write_header"
    /\ csvFile' = [csvFile EXCEPT !.content = Append(@, CsvLine(CsvHeader))]
    /\ idx' = 0
    /\ pc' = "write_rows"
    /\ UNCHANGED <<i18nFile, exFile, jsonFile, err, i18n, raw, exercises,
                   results, console>>

\* one iteration of: for r in results: writer.writerow([...])
WriteRow ==
    /\ pc = "write_rows"
    /\ ~LoopDone(idx, results)
    /\ csvFile' = [csvFile EXCEPT
                      !.content = Append(@, CsvLine(CsvRow(results[idx + 1])))]
    /\ idx' = idx + 1
    /\ UNCHANGED <<i18nFile, exFile, jsonFile, pc, err, i18n, raw, exercises,
                   results, console>>

\* print(f"Wrote {len(results)} exercises to ...") and return
Report ==
    /\ pc = "write_rows"
    /\ LoopDone(idx, results)
    /\ console' = Append(console,
           "Wrote " \o StrInt(Len(results))
           \o " exercises to exercises-clean.json and exercises.csv")
    /\ pc' = "done"
    /\ UNCHANGED <<i18nFile, exFile, jsonFile, csvFile, err, i18n, raw,
                   exercises, results, idx>>

Next ==
    \/ LoadI18n
    \/ LoadExercises
    \/ GetData
    \/ TransformRecord
    \/ Sort
    \/ OpenJson
    \/ DumpJson
    \/ OpenCsv
    \/ WriteHeader
    \/ WriteRow
    \/ Report

Spec == Init /\ [][Next]_vars

----------------------------------------------------------------------------
(* Properties *)

\* the clean records of the input, in input order
Transformed == [k \in 1..Len(exercises) |-> Transform(exercises[k], i18n)]

\* how often x occurs in the sequence q
Count(q, x) == Cardinality({i \in 1..Len(q) : q[i] = x})

\* this run has written the JSON array
JsonWritten == pc \in {"open_csv", "write_header", "write_rows", "done"}

\* this run has created, emptied or written an output file
WriteBegun == <<jsonFile, csvFile>> \notin OutputsBefore

\* the value of the decimal numeral s
RECURSIVE DecimalValue(_)
DecimalValue(s) ==
    IF Len(s) = 0 THEN 0
    ELSE IF Char(s, 1) = "-" THEN 0 - DecimalValue(From(s, 2))
    ELSE 10 * DecimalValue(SubSeq(s, 1, Len(s) - 1))
         + (IndexIn("0123456789", Char(s, Len(s))) - 1)

\* s is a decimal numeral: digits only behind an optional sign, no leading
\* zero but for zero itself
IsDecimal(s) ==
    LET digits == IF Len(s) > 0 /\ Char(s, 1) = "-" THEN From(s, 2) ELSE s
    IN  /\ Len(digits) > 0
        /\ \A i \in 1..Len(digits) :
              \E d \in 1..10 : Char(digits, i) = Char("0123456789", d)
        /\ Len(digits) > 1 => Char(digits, 1) # "0"

\* label is the literal Unknown(<code>) with the code in decimal
IsUnknownOf(label, code) ==
    /\ Len(label) > 9
    /\ SubSeq(label, 1, 8) = "Unknown("
    /\ Char(label, Len(label)) = ")"
    /\ IsDecimal(SubSeq(label, 9, Len(label) - 1))
    /\ DecimalValue(SubSeq(label, 9, Len(label) - 1)) = code

\* labels renders codes through table, one label per code, in order
LabelsMirror(table, codes, labels) ==
    /\ Len(labels) = Len(codes)
    /\ \A i \in 1..Len(codes) :
          IF codes[i] \in DOMAIN table
          THEN labels[i] = table[codes[i]]
          ELSE IsUnknownOf(labels[i], codes[i])

\* C1: an absent part, muscle, equipment, coverUrlArrStr, videoUrl or name
\* field of a raw record is no error: the loop never ends the run, the clean
\* record holds the default of each absent field, and a run over a document
\* with a data array ends with both output files written.
C1_AbsentFieldsAreNoError ==
    /\ pc = "aborted" => err.at # "loop"
    /\ pc = "loop" =>
          \A k \in 1..idx :
             /\ "part" \notin DOMAIN exercises[k] => results[k].body_parts = <<>>
             /\ "muscle" \notin DOMAIN exercises[k] => results[k].muscles = <<>>
             /\ "equipment" \notin DOMAIN exercises[k] => results[k].equipment = <<>>
             /\ "coverUrlArrStr" \notin DOMAIN exercises[k] => results[k].thumbnail = ""
             /\ "videoUrl" \notin DOMAIN exercises[k] => results[k].video = ""
    /\ pc = "done" => jsonFile.exists /\ csvFile.exists

\* C2: the written collection has as many records as the data array, and
\* every clean record occurs in it exactly as often as the raw records that
\* yield it occur in the input: none filtered, duplicated or merged.
C2_OneCleanRecordPerRawRecord ==
    JsonWritten =>
        /\ Len(jsonFile.content) = Len(exercises)
        /\ \A k \in 1..Len(exercises) :
              Count(jsonFile.content, Transformed[k]) = Count(Transformed, Transformed[k])
        /\ \A k \in 1..Len(jsonFile.content) :
              Count(Transformed, jsonFile.content[k]) > 0

\* three records are written, two of them under the same display name
C2_Witness ==
    /\ pc = "done"
    /\ Len(jsonFile.content) = 3
    /\ jsonFile.content[1].name = jsonFile.content[2].name
    /\ jsonFile.content[1] # jsonFile.content[2]

\* the display name of a raw record
ExpectedName(ex) ==
    IF ex["name"] \in DOMAIN i18n THEN i18n[ex["name"]] ELSE ex["name"]

\* C3: the name of every clean record is the localization table's entry for
\* the raw name code when the table has the code, and the raw code otherwise.
C3_NameResolved ==
    /\ pc = "loop" => \A k \in 1..idx : results[k].name = ExpectedName(exercises[k])
    /\ JsonWritten =>
          \A k \in 1..Len(exercises) :
             \E j \in 1..Len(jsonFile.content) :
                jsonFile.content[j].name = ExpectedName(exercises[k])

\* the loop has resolved one code the table has and one it lacks
C3_Witness ==
    /\ pc = "loop"
    /\ idx >= 2
    /\ exercises[1]["name"] \in DOMAIN i18n
    /\ results[1].name # exercises[1]["name"]
    /\ exercises[2]["name"] \notin DOMAIN i18n
    /\ results[2].name = exercises[2]["name"]

\* C4: each label list is as long as its source array, its i-th label is the
\* table's entry for the i-th code, or Unknown(<code>) in decimal for a code
\* outside the table, in the order of the source.
C4_LabelsMirrorCodes ==
    pc = "loop" =>
        \A k \in 1..idx :
           /\ LabelsMirror(BODY_PARTS, DictGet(exercises[k], "part", <<>>),
                           results[k].body_parts)
           /\ LabelsMirror(MUSCLES, DictGet(exercises[k], "muscle", <<>>),
                           results[k].muscles)
           /\ LabelsMirror(EQUIPMENT, DictGet(exercises[k], "equipment", <<>>),
                           results[k].equipment)

\* a muscle array of an unknown code of several digits before a known one
C4_Witness ==
    /\ pc = "loop"
    /\ idx = 1
    /\ "muscle" \in DOMAIN exercises[1]
    /\ exercises[1]["muscle"] = <<120, 1>>
    /\ results[1].muscles = <<"Unknown(120)", "Deltoids">>

\* the prefixes window.<word characters>= and <word characters>=
WindowPrefixes == {"window.en_US=", "window.x="}

BarePrefixes == {"en_US=", "x="}

\* an optional semicolon, then optional whitespace
FormTails == {"", ";", " ", ";\n"}

\* text is: whitespace, one of the prefixes, the JSON text body, a tail
OfForm(text, prefixes, body) ==
    \E l \in LeadPool, p \in prefixes, t \in FormTails :
       text = l \o p \o body \o t

\* load_i18n has returned
I18nReturned == pc # "load_i18n" /\ err.at # "load_i18n"

\* C5 as the spec states it: content <identifier>=<JSON object>; with
\* optional surrounding whitespace and an optional semicolon loads as the
\* mapping of the JSON object, whatever the identifier.
C5_AnyIdentifierLoads ==
    \A j \in JsonSamples :
       (/\ j.ok
        /\ i18nFile.kind = "text"
        /\ OfForm(i18nFile.text, WindowPrefixes \cup BarePrefixes, j.text)
        /\ pc # "load_i18n")
       => I18nReturned /\ i18n = j.value

\* C5: content window.<word characters>=<JSON object>; with optional
\* surrounding whitespace and an optional semicolon loads as the mapping of
\* the JSON object; with a bare <word characters>= prefix nothing is stripped
\* and the load ends in a parse error.
C5_WindowPrefixLoads ==
    \A j \in JsonSamples :
       (j.ok /\ i18nFile.kind = "text" /\ pc # "load_i18n") =>
          /\ OfForm(i18nFile.text, WindowPrefixes, j.text)
                => I18nReturned /\ i18n = j.value
          /\ OfForm(i18nFile.text, BarePrefixes, j.text)
                => /\ pc = "aborted"
                   /\ err = [type |-> "JSONDecodeError", at |-> "load_i18n"]

\* a file with whitespace around the assignment has been loaded
C5_Witness ==
    /\ pc = "load_exercises"
    /\ i18nFile = TextFile("\n window.en_US={\"a\":\"Squat\"};\n")
    /\ i18n = ("a" :> "Squat")

\* an input file is missing or malformed, or the document has no data key
InputsBad ==
    \/ i18nFile.kind = "absent"
    \/ i18nFile.kind = "text" /\ ~load_i18n(i18nFile.text).ok
    \/ exFile.kind \in {"absent", "malformed"}
    \/ exFile.kind = "json" /\ "data" \notin DOMAIN exFile.value

\* C6: a run over a missing or malformed input file, or over a document
\* without the data key, ends in an error and leaves both output files as
\* they were: missing, or with the content of the earlier run.
C6_BadInputsWriteNothing ==
    InputsBad =>
        /\ pc \in {"load_i18n", "load_exercises", "get_data", "aborted"}
        /\ ~WriteBegun
        /\ pc = "aborted" =>
              /\ err.type \in {"FileNotFoundError", "JSONDecodeError", "KeyError"}
              /\ err.at \in {"load_i18n", "load_exercises", "get_data"}

\* the run has ended on the missing data key with the old outputs in place
C6_Witness ==
    /\ pc = "aborted"
    /\ err = [type |-> "KeyError", at |-> "get_data"]
    /\ jsonFile = StaleJson
    /\ csvFile = StaleCsv

\* no name of q is below the name in front of it
NameSorted(q) ==
    \A i \in 1..(Len(q) - 1) : ~StrLess(q[i + 1].name, q[i].name)

\* the records of q under the name n, in the order of q
Named(q, n) == SelectSeq(q, LAMBDA r : r.name = n)

\* the sort has run
Sorted == pc \in {"open_json", "dump_json", "open_csv", "write_header",
                  "write_rows", "done"}

\* C7: the collection that is written is in non-descending order of name,
\* records of equal name keep their input order, sorting it again changes
\* nothing, and it is what the JSON file receives.
C7_StableSortByName ==
    /\ Sorted =>
          /\ NameSorted(results)
          /\ \A k \in 1..Len(results) :
                Named(results, results[k].name) = Named(Transformed, results[k].name)
          /\ SortByName(results) = results
    /\ JsonWritten => jsonFile.content = results

\* the sort has moved a record and kept two of equal name in input order
C7_Witness ==
    /\ pc = "done"
    /\ Len(results) = 3
    /\ results # Transformed
    /\ results[1].name = results[2].name
    /\ results[1] # results[2]
    /\ results[1] = Transformed[2]
    /\ results[2] = Transformed[3]

\* t is the text of s in front of its first comma, all of s without a comma
BeforeFirstComma(s, t) ==
    /\ Len(t) <= Len(s)
    /\ SubSeq(s, 1, Len(t)) = t
    /\ \A i \in 1..Len(t) : Char(t, i) # ","
    /\ Len(t) < Len(s) => Char(s, Len(t) + 1) = ","

\* C8: thumbnail is the text of coverUrlArrStr in front of its first comma,
\* empty when the field is empty or absent; video is videoUrl as it is, empty
\* when absent.
C8_ThumbnailAndVideo ==
    pc = "loop" =>
        \A k \in 1..idx :
           /\ IF "coverUrlArrStr" \in DOMAIN exercises[k]
              THEN BeforeFirstComma(exercises[k]["coverUrlArrStr"],
                                    results[k].thumbnail)
              ELSE results[k].thumbnail = ""
           /\ IF "videoUrl" \in DOMAIN exercises[k]
              THEN results[k].video = exercises[k]["videoUrl"]
              ELSE results[k].video = ""

\* a cover string of two URLs has given the first
C8_Witness ==
    /\ pc = "loop"
    /\ idx = 1
    /\ "coverUrlArrStr" \in DOMAIN exercises[1]
    /\ exercises[1]["coverUrlArrStr"] = "http://a,http://b"
    /\ results[1].thumbnail = "http://a"
    /\ results[1].video = "http://v"

\* both inputs are in memory as the files hold them
InputsRead ==
    /\ i18nFile.kind = "text"
    /\ i18n = load_i18n(i18nFile.text).value
    /\ exFile.kind = "json"
    /\ raw = exFile.value
    /\ "data" \in DOMAIN raw
    /\ exercises = raw["data"]

\* C9: a record is transformed only after both inputs are read, a write
\* begins only after every record is transformed and the collection sorted,
\* and once a write has begun nothing is read or transformed any more.
C9_PhasesOrdered ==
    /\ [](/\ Len(results) > 0 => InputsRead
          /\ WriteBegun => /\ InputsRead
                           /\ Len(results) = Len(exercises)
                           /\ NameSorted(results))
    /\ [][WriteBegun => UNCHANGED <<i18n, raw, exercises, results>>]_vars

\* the JSON file is open for three sorted records
C9_Witness ==
    /\ pc = "dump_json"
    /\ WriteBegun
    /\ Len(results) = 3
    /\ results # Transformed

\* The fields of one CSV record as a reader takes them: fields end at a
\* comma outside quotes, a field that opens with a quote runs to its closing
\* quote, a doubled quote inside is one quote, the record ends at \r\n.
RECURSIVE CsvScan(_, _, _, _, _)
CsvScan(s, i, cur, quoted, acc) ==
    IF i > Len(s) THEN Append(acc, cur)
    ELSE LET c == Char(s, i)
         IN  IF quoted
             THEN IF c = "\""
                  THEN IF i < Len(s) /\ Char(s, i + 1) = "\""
                       THEN CsvScan(s, i + 2, cur \o "\"", TRUE, acc)
                       ELSE CsvScan(s, i + 1, cur, FALSE, acc)
                  ELSE CsvScan(s, i + 1, cur \o c, TRUE, acc)
             ELSE IF c = "," THEN CsvScan(s, i + 1, "", FALSE, Append(acc, cur))
             ELSE IF c = "\"" /\ cur = "" THEN CsvScan(s, i + 1, cur, TRUE, acc)
             ELSE IF From(s, i) = "\r\n" THEN Append(acc, cur)
             ELSE CsvScan(s, i + 1, cur \o c, FALSE, acc)

CsvRead(line) == CsvScan(line, 1, "", FALSE, <<>>)

\* the list a column holds: its value cut at every "; "
RECURSIVE CutAtSemicolons(_, _, _)
CutAtSemicolons(s, start, i) ==
    IF i > Len(s) THEN <<SubSeq(s, start, Len(s))>>
    ELSE IF i < Len(s) /\ SubSeq(s, i, i + 1) = "; "
         THEN <<SubSeq(s, start, i - 1)>> \o CutAtSemicolons(s, i + 2, i + 2)
         ELSE CutAtSemicolons(s, start, i + 1)

ColumnList(s) == IF s = "" THEN <<>> ELSE CutAtSemicolons(s, 1, 1)

\* C10: after a successful run the CSV holds the header row Name, Body
\* Parts, Muscles, Equipment and then one row per record of the JSON array,
\* in the same order; each row has four columns: the name, and the three
\* label lists joined with "; ".
C10_CsvMirrorsJson ==
    pc = "done" =>
        /\ csvFile.exists
        /\ Len(csvFile.content) = Len(jsonFile.content) + 1
        /\ CsvRead(csvFile.content[1]) = <<"Name", "Body Parts", "Muscles", "Equipment">>
        /\ \A k \in 1..Len(jsonFile.content) :
              LET row == CsvRead(csvFile.content[k + 1])
                  r == jsonFile.content[k]
              IN  /\ Len(row) = 4
                  /\ row[1] = r.name
                  /\ ColumnList(row[2]) = r.body_parts
                  /\ ColumnList(row[3]) = r.muscles
                  /\ ColumnList(row[4]) = r.equipment

\* three rows are written, one under a name with a comma and quotes, one
\* with two labels in a column
C10_Witness ==
    /\ pc = "done"
    /\ Len(csvFile.content) = 4
    /\ \E k \in 1..3 : jsonFile.content[k].name = "x,\"q\""
    /\ \E k \in 1..3 : Len(jsonFile.content[k].body_parts) = 2
    /\ \E k \in 1..3 : jsonFile.content[k].thumbnail # ""

====
